---- MODULE Spec2Model ----
(***************************************************************************)
(* Session state engine of the band Dropbox client (src/src/app.py):       *)
(* startup with two joint fetches, library selection, instrument tallies,  *)
(* the linear undo log, highlight cursors, the rendered option lists and   *)
(* the detail panel, and the background start task.                        *)
(***************************************************************************)
EXTENDS Integers, Sequences, FiniteSets, TLC

VARIABLES
    access_token,                 \* DBX_CONFIG.access_token: "ok", "missing" or "invalid"
    instruments_path,             \* app_config.instruments_path: None or a path
    instruments_suffix,           \* app_config.instruments_suffix: None or a suffix
    instruments_exclude_substrings, \* app_config.instruments_exclude_substrings
    selected_order,               \* the order in which self._selected_entries iterates
    startup_pc,                   \* position of on_mount/_startup
    library_fetch,                \* the to_thread task of the library listing
    instruments_fetch,            \* the to_thread task of the instruments listing
    fetch_calls,                  \* number of list_contents calls per panel
    library_entries,              \* self._library_entries
    selected_entries,             \* self._selected_entries
    highlight_index,              \* self._highlight_index
    instrument_entries,           \* self._instrument_entries
    instrument_counts,            \* self._instrument_counts
    instrument_highlight_index,   \* self._instrument_highlight_index
    action_history,               \* self._action_history
    is_loading,                   \* reactive is_loading
    library_list,                 \* options of #library-list
    instrument_list,              \* options of #instrument-list
    detail,                       \* the four Static widgets of the detail panel
    start_task,                   \* self._start_task: NoTask or the id of a task
    start_tasks,                  \* the asyncio tasks of _run_start_sequence, by id
    start_label,                  \* label of the Start button
    start_outcome,                \* what came of the last trigger or task completion
    last_op,                      \* the operation called last on the session state, and its outcome
    history_before                \* per history record: the state the record's action found

configVars  == <<access_token, instruments_path, instruments_suffix,
                 instruments_exclude_substrings, selected_order>>
startupVars == <<startup_pc, library_fetch, instruments_fetch, fetch_calls>>
sessionVars == <<library_entries, selected_entries, highlight_index, instrument_entries,
                 instrument_counts, instrument_highlight_index, action_history>>
widgetVars  == <<is_loading, library_list, instrument_list, detail>>
startVars   == <<start_task, start_tasks, start_label, start_outcome>>
ghostVars   == <<last_op, history_before>>
vars == <<configVars, startupVars, sessionVars, widgetVars, startVars, ghostVars>>

-----------------------------------------------------------------------------
(* Bounds of the model. *)

MaxHistory == 2      \* interactions are accepted while the history is shorter
MaxTally   == 2      \* increments are accepted while the tally is smaller
MaxDelta   == 2      \* adjust_tally is called with deltas -MaxDelta..MaxDelta
MaxIndex   == 1      \* events report option indices 0..MaxIndex
MaxTasks   == 2      \* a start task is created while fewer tasks are alive
MaxRaw     == 2      \* the Entry Processor is given listings of up to MaxRaw names

None == "<None>"      \* None where a string is expected
NoIndex == -1         \* None where an index is expected

-----------------------------------------------------------------------------
(* Strings: code points, str.lower, comparison, the str methods used. *)

CodePoints == " (),-.0123456789:ABCDEFGHIJKLMNOPQRSTUVWXYZ[]_abcdefghijklmnopqrstuvwxyz"
UpperCase  == "ABCDEFGHIJKLMNOPQRSTUVWXYZ"
LowerCase  == "abcdefghijklmnopqrstuvwxyz"
Digits     == "0123456789"

CharAt(s, i) == SubSeq(s, i, i)

Chars(alphabet) == {CharAt(alphabet, i) : i \in 1..Len(alphabet)}

IndexIn(alphabet, c) ==
    LET hits == {i \in 1..Len(alphabet) : CharAt(alphabet, i) = c}
    IN  IF hits = {} THEN 0 ELSE CHOOSE i \in hits : TRUE

(* Tables of the code point order, str.lower and the digits. *)
OrdTable   == [c \in Chars(CodePoints) |-> IndexIn(CodePoints, c)]
LowerTable == [c \in Chars(UpperCase) |-> CharAt(LowerCase, IndexIn(UpperCase, c))]
DigitTable == [c \in Chars(Digits) |-> IndexIn(Digits, c) - 1]

Ord(c) == OrdTable[c]

LowerChar(c) == IF c \in DOMAIN LowerTable THEN LowerTable[c] ELSE c

RECURSIVE Lower(_)
Lower(s) == IF s = "" THEN "" ELSE LowerChar(CharAt(s, 1)) \o Lower(SubSeq(s, 2, Len(s)))

RECURSIVE StrLess(_, _)
StrLess(a, b) ==
    IF b = "" THEN FALSE
    ELSE IF a = "" THEN TRUE
    ELSE IF CharAt(a, 1) = CharAt(b, 1)
         THEN StrLess(SubSeq(a, 2, Len(a)), SubSeq(b, 2, Len(b)))
         ELSE Ord(CharAt(a, 1)) < Ord(CharAt(b, 1))

StartsWith(s, p) == Len(p) <= Len(s) /\ SubSeq(s, 1, Len(p)) = p
EndsWith(s, p)   == Len(p) <= Len(s) /\ SubSeq(s, Len(s) - Len(p) + 1, Len(s)) = p
Find(s, p) ==
    IF \E i \in 1..(Len(s) - Len(p) + 1) : SubSeq(s, i, i + Len(p) - 1) = p
    THEN CHOOSE i \in 1..(Len(s) - Len(p) + 1) :
            /\ SubSeq(s, i, i + Len(p) - 1) = p
            /\ \A j \in 1..(i - 1) : SubSeq(s, j, j + Len(p) - 1) # p
    ELSE 0
Contains(s, p) == Find(s, p) > 0

RECURSIVE Strip(_)
Strip(s) ==
    IF s = "" THEN ""
    ELSE IF CharAt(s, 1) = " " THEN Strip(SubSeq(s, 2, Len(s)))
    ELSE IF CharAt(s, Len(s)) = " " THEN Strip(SubSeq(s, 1, Len(s) - 1))
    ELSE s

RECURSIVE Split(_, _)
Split(s, sep) ==
    IF Find(s, sep) = 0 THEN <<s>>
    ELSE <<SubSeq(s, 1, Find(s, sep) - 1)>>
         \o Split(SubSeq(s, Find(s, sep) + Len(sep), Len(s)), sep)

RECURSIVE Join(_, _)
Join(lines, sep) ==
    IF lines = <<>> THEN ""
    ELSE IF Len(lines) = 1 THEN lines[1]
    ELSE lines[1] \o sep \o Join(Tail(lines), sep)

RECURSIVE IntText(_)
IntText(n) ==
    IF n < 0 THEN "-" \o IntText(-n)
    ELSE IF n < 10 THEN CharAt(Digits, n + 1)
    ELSE IntText(n \div 10) \o CharAt(Digits, (n % 10) + 1)

IsDigits(s) == s # "" /\ \A i \in 1..Len(s) : CharAt(s, i) \in DOMAIN DigitTable

RECURSIVE ParseInt(_)
ParseInt(s) ==
    IF s = "" THEN 0
    ELSE 10 * ParseInt(SubSeq(s, 1, Len(s) - 1)) + DigitTable[CharAt(s, Len(s))]

(* InsertByLower comparing the strings themselves, not their lower case. *)
RECURSIVE InsertByLower_by_code_point(_, _)
InsertByLower_by_code_point(sorted, x) ==
    IF sorted = <<>> THEN <<x>>
    ELSE IF StrLess(x, sorted[Len(sorted)])
         THEN InsertByLower_by_code_point(SubSeq(sorted, 1, Len(sorted) - 1), x)
                \o <<sorted[Len(sorted)]>>
         ELSE sorted \o <<x>>

(* sorted(xs, key=str.lower): a stable insertion sort. *)
RECURSIVE InsertByLower(_, _)
InsertByLower(sorted, x) ==
    IF sorted = <<>> THEN <<x>>
    ELSE IF StrLess(Lower(x), Lower(sorted[Len(sorted)]))
         THEN InsertByLower(SubSeq(sorted, 1, Len(sorted) - 1), x) \o <<sorted[Len(sorted)]>>
         ELSE sorted \o <<x>>

RECURSIVE SortedByLower(_)
SortedByLower(xs) ==
    IF xs = <<>> THEN <<>>
    ELSE InsertByLower(SortedByLower(SubSeq(xs, 1, Len(xs) - 1)), xs[Len(xs)])

SeqRange(xs) == {xs[i] : i \in 1..Len(xs)}

(* The orders in which a set can be iterated. *)
Enumerations(S) ==
    {p \in [1..Cardinality(S) -> S] : \A i, j \in 1..Cardinality(S) : p[i] = p[j] => i = j}

Max(a, b) == IF a >= b THEN a ELSE b
Min(a, b) == IF a <= b THEN a ELSE b

-----------------------------------------------------------------------------
(* The configuration snapshot read by the application. *)

LibrarySuffix               == ".pdf"
InstrumentsSuffix           == "_alt.pdf"
InstrumentsExcludeSubstrings == "draft, ,"
DetailLibraryPlaceholder    == "No items selected."
DetailInstrumentsPlaceholder == "No instruments counted."
InstrumentsEmptyMessage     == "No instruments found."
LibraryPlaceholder          == "Library entries will appear here."
InstrumentsPlaceholder      == "Instruments will appear here."
LibraryPath                 == ""
InstrumentsPathValues       == {None, " /instruments "}
AccessTokenValues           == {"ok", "missing", "invalid"}

-----------------------------------------------------------------------------
(* src/util.py *)

strip_suffix(entry, suffix) ==
    IF suffix = None \/ suffix = "" THEN entry
    ELSE IF EndsWith(entry, suffix) THEN SubSeq(entry, 1, Len(entry) - Len(suffix))
    ELSE entry

contains_any_substring(entry, substrings) ==
    \E i \in 1..Len(substrings) : substrings[i] # "" /\ Contains(entry, substrings[i])

-----------------------------------------------------------------------------
(* The Entry Processor and the option ids. *)

strip_type_indicator(entry) ==
    IF StartsWith(entry, "[") /\ Contains(entry, "] ")
    THEN SubSeq(entry, Find(entry, "] ") + 2, Len(entry))
    ELSE entry

instrument_exclusions ==
    LET raw   == IF instruments_exclude_substrings = None
                 THEN "" ELSE instruments_exclude_substrings
        parts == Split(raw, ",")
    IN  SelectSeq([i \in 1..Len(parts) |-> Strip(parts[i])], LAMBDA part : part # "")

(* process_instrument_loop testing the exclusions on the raw name. *)
RECURSIVE process_instrument_loop_excludes_raw(_, _, _)
process_instrument_loop_excludes_raw(entries, suffix, exclusions) ==
    IF entries = <<>> THEN <<>>
    ELSE LET display == strip_suffix(strip_type_indicator(Head(entries)), suffix)
             rest    == process_instrument_loop_excludes_raw(Tail(entries), suffix, exclusions)
         IN  IF exclusions # <<>> /\ contains_any_substring(Head(entries), exclusions)
             THEN rest
             ELSE <<display>> \o rest

RECURSIVE process_instrument_loop(_, _, _)
process_instrument_loop(entries, suffix, exclusions) ==
    IF entries = <<>> THEN <<>>
    ELSE LET display == strip_suffix(strip_type_indicator(Head(entries)), suffix)
             rest    == process_instrument_loop(Tail(entries), suffix, exclusions)
         IN  IF exclusions # <<>> /\ contains_any_substring(display, exclusions)
             THEN rest
             ELSE <<display>> \o rest

process_instrument_entries(entries) ==
    SortedByLower(process_instrument_loop(entries, instruments_suffix, instrument_exclusions))

process_library_entries(entries) ==
    IF LibrarySuffix # None /\ LibrarySuffix # ""
    THEN [i \in 1..Len(entries) |-> strip_suffix(entries[i], LibrarySuffix)]
    ELSE entries

(* str.rsplit("-", 1): the position of the last "-", 0 when there is none. *)
LastDash(s) ==
    IF \E i \in 1..Len(s) : CharAt(s, i) = "-"
    THEN CHOOSE i \in 1..Len(s) :
            CharAt(s, i) = "-" /\ \A j \in (i + 1)..Len(s) : CharAt(s, j) # "-"
    ELSE 0

option_index(option) ==
    IF option.id = None \/ option.id = "" THEN NoIndex
    ELSE IF LastDash(option.id) = 0 THEN NoIndex
    ELSE LET index_text == Strip(SubSeq(option.id, LastDash(option.id) + 1, Len(option.id)))
         IN  IF IsDigits(index_text) THEN ParseInt(index_text) ELSE NoIndex

Option(prompt, id, disabled) == [prompt |-> prompt, id |-> id, disabled |-> disabled]

-----------------------------------------------------------------------------
(* src/client/dropbox_client.py *)

(* ClientError of a constructor that never raises. *)
ClientError_never(token) == None

ClientError(token) ==
    IF token = "missing"
    THEN "Cannot connect! The DBX access token is missing in the configurations."
    ELSE IF token = "invalid"
    THEN "('Cannot connect!', AuthError('invalid_access_token', None))"
    ELSE None

(* What the remote folders can hold, in the order the service reports it. *)
LibraryFolders ==
    { <<>>, <<"b.pdf", "A.pdf">>, <<"a.pdf", "a">> }
InstrumentFolders ==
    { <<>>, <<"[file] sax_alt.pdf", "[file] draft_alt.pdf", "Bass_alt.pdf">>,
      <<"[file] sax_alt.pdf", "sax_alt.pdf">> }
ListingErrors(path) ==
    { "Unable to list folder '" \o path \o "'.", "Connection timed out." }

Returned(entries) == [ok |-> TRUE, value |-> entries]
Raised(message)   == [ok |-> FALSE, value |-> message]

list_contents(path, folders) ==
    LET normalized_path == IF Strip(path) = "/" THEN "" ELSE Strip(path)
        folder == IF normalized_path = "" THEN "/" ELSE normalized_path
    IN  { Returned(SortedByLower(names)) : names \in folders }
            \cup { Raised(message) : message \in ListingErrors(folder) }

NotStarted == [ok |-> FALSE, value |-> "<not started>"]
Pending    == [ok |-> FALSE, value |-> "<pending>"]
Joined     == [ok |-> FALSE, value |-> "<joined>"]
(* Completed taking a fetch still with its worker thread for a finished one. *)
Completed_or_pending(fetch) == fetch \notin {NotStarted, Joined}

Completed(fetch) == fetch \notin {NotStarted, Pending, Joined}

-----------------------------------------------------------------------------
(* The application object: its fields and its widgets, as one record.      *)

SelectionAction(entry, previous_state) ==
    [type |-> "SelectionAction", entry |-> entry, previous_state |-> previous_state]
InstrumentAction(entry, delta) ==
    [type |-> "InstrumentAction", entry |-> entry, delta |-> delta]

NoCounts == [e \in {} |-> 0]

App ==
    [ library_entries            |-> library_entries,
      selected_entries           |-> selected_entries,
      highlight_index            |-> highlight_index,
      instrument_entries         |-> instrument_entries,
      instrument_counts          |-> instrument_counts,
      instrument_highlight_index |-> instrument_highlight_index,
      action_history             |-> action_history,
      is_loading                 |-> is_loading,
      library_list               |-> library_list,
      instrument_list            |-> instrument_list,
      detail                     |-> detail,
      history_before             |-> history_before ]

Becomes(app) ==
    /\ library_entries'            = app.library_entries
    /\ selected_entries'           = app.selected_entries
    /\ highlight_index'            = app.highlight_index
    /\ instrument_entries'         = app.instrument_entries
    /\ instrument_counts'          = app.instrument_counts
    /\ instrument_highlight_index' = app.instrument_highlight_index
    /\ action_history'             = app.action_history
    /\ is_loading'                 = app.is_loading
    /\ library_list'               = app.library_list
    /\ instrument_list'            = app.instrument_list
    /\ detail'                     = app.detail
    /\ history_before'             = app.history_before

Composed ==
    [ library_entries            |-> <<>>,
      selected_entries           |-> {},
      highlight_index            |-> 0,
      instrument_entries         |-> <<>>,
      instrument_counts          |-> NoCounts,
      instrument_highlight_index |-> 0,
      action_history             |-> <<>>,
      is_loading                 |-> TRUE,
      library_list               |-> <<Option(LibraryPlaceholder, None, TRUE)>>,
      instrument_list            |-> <<Option(InstrumentsPlaceholder, None, TRUE)>>,
      detail                     |-> [ library_title     |-> "Selected items (0)",
                                       library           |-> DetailLibraryPlaceholder,
                                       instruments_title |-> "Instrument counts (0)",
                                       instruments       |-> DetailInstrumentsPlaceholder ],
      history_before             |-> <<>> ]

(* The state a history record's action found, kept beside the record. *)
Snapshot(app) ==
    [selected_entries |-> app.selected_entries, instrument_counts |-> app.instrument_counts]

CountOf(counts, entry) == IF entry \in DOMAIN counts THEN counts[entry] ELSE 0

SetCount(counts, entry, value) ==
    [e \in (DOMAIN counts) \cup {entry} |-> IF e = entry THEN value ELSE counts[e]]

(* The keys of the tally dict, in insertion order. *)
RECURSIVE DictKeys(_)
DictKeys(entries) ==
    IF entries = <<>> THEN <<>>
    ELSE LET front == DictKeys(SubSeq(entries, 1, Len(entries) - 1))
             last  == entries[Len(entries)]
         IN  IF last \in SeqRange(front) THEN front ELSE front \o <<last>>

(* The iteration order of a set, given a ranking of the identities. *)
Iterate(set, order) == SelectSeq(order, LAMBDA e : e \in set)

-----------------------------------------------------------------------------
(* Rendering. *)

TargetIndex(index, entries) == Min(index, Len(entries) - 1)

refresh_library_options(app) ==
    IF app.library_entries = <<>>
    THEN [app EXCEPT !.library_list = <<Option("This folder is empty.", None, TRUE)>>,
                     !.highlight_index = 0]
    ELSE [app EXCEPT
            !.library_list =
                [i \in 1..Len(app.library_entries) |->
                    Option((IF app.library_entries[i] \in app.selected_entries
                            THEN "[x]" ELSE "[ ]") \o " " \o app.library_entries[i],
                           "entry-" \o IntText(i - 1), FALSE)],
            !.highlight_index = TargetIndex(app.highlight_index, app.library_entries)]

refresh_instrument_options(app) ==
    IF app.instrument_entries = <<>>
    THEN [app EXCEPT !.instrument_list = <<Option(InstrumentsEmptyMessage, None, TRUE)>>,
                     !.instrument_highlight_index = 0]
    ELSE [app EXCEPT
            !.instrument_list =
                [i \in 1..Len(app.instrument_entries) |->
                    Option("[" \o IntText(CountOf(app.instrument_counts,
                                                  app.instrument_entries[i])) \o "] "
                               \o app.instrument_entries[i],
                           "instrument-" \o IntText(i - 1), FALSE)],
            !.instrument_highlight_index =
                TargetIndex(app.instrument_highlight_index, app.instrument_entries)]

SelectionSummary(selected, order) ==
    [ title |-> "Selected items (" \o IntText(Cardinality(selected)) \o ")",
      body  |-> IF Cardinality(selected) # 0
                THEN Join(SortedByLower(Iterate(selected, order)), "\n")
                ELSE DetailLibraryPlaceholder ]

TallySummary(counts, keys) ==
    LET counted == SelectSeq(SortedByLower(keys), LAMBDA e : CountOf(counts, e) > 0)
    IN  [ title |-> "Instrument counts (" \o IntText(Len(counted)) \o ")",
          body  |-> IF counted # <<>>
                    THEN Join([i \in 1..Len(counted) |->
                                 counted[i] \o ": " \o IntText(CountOf(counts, counted[i]))],
                              "\n")
                    ELSE DetailInstrumentsPlaceholder ]

update_detail_panel(app, error, order) ==
    IF error
    THEN [app EXCEPT !.detail = [ library_title     |-> "Selected items (0)",
                                  library           |-> "Unable to show details.",
                                  instruments_title |-> "Instrument counts (0)",
                                  instruments       |-> "Unable to show details." ]]
    ELSE LET selection == SelectionSummary(app.selected_entries, order)
             tally     == TallySummary(app.instrument_counts,
                                       SelectSeq(DictKeys(app.instrument_entries),
                                                 LAMBDA e : e \in DOMAIN app.instrument_counts))
         IN  [app EXCEPT !.detail = [ library_title     |-> selection.title,
                                      library           |-> selection.body,
                                      instruments_title |-> tally.title,
                                      instruments       |-> tally.body ]]

-----------------------------------------------------------------------------
(* Load handlers. *)

on_library_loaded(app, contents) ==
    update_detail_panel(
        refresh_library_options(
            [app EXCEPT !.is_loading = FALSE,
                        !.library_entries = contents,
                        !.selected_entries = {},
                        !.highlight_index = 0,
                        !.action_history = <<>>,
                        !.history_before = <<>>]),
        FALSE, <<>>)

LibraryErrorOption(message) ==
    Option("Unable to load Dropbox contents:\n" \o message, None, TRUE)

on_library_error(app, message) ==
    update_detail_panel(
        [app EXCEPT !.is_loading = FALSE,
                    !.library_entries = <<>>,
                    !.selected_entries = {},
                    !.highlight_index = 0,
                    !.action_history = <<>>,
                    !.history_before = <<>>,
                    !.library_list = <<LibraryErrorOption(message)>>],
        TRUE, <<>>)

on_instruments_loaded(app, entries, order) ==
    update_detail_panel(
        refresh_instrument_options(
            [app EXCEPT !.instrument_entries = entries,
                        !.instrument_counts =
                            [e \in SeqRange(entries) |-> CountOf(app.instrument_counts, e)],
                        !.instrument_highlight_index = 0,
                        !.action_history = <<>>,
                        !.history_before = <<>>]),
        FALSE, order)

InstrumentsErrorOption(message) ==
    Option("Unable to load instruments:\n" \o message, None, TRUE)

on_instruments_error(app, message, order) ==
    update_detail_panel(
        [app EXCEPT !.instrument_entries = <<>>,
                    !.instrument_counts = NoCounts,
                    !.instrument_highlight_index = 0,
                    !.action_history = <<>>,
                    !.history_before = <<>>,
                    !.instrument_list = <<InstrumentsErrorOption(message)>>],
        FALSE, order)

-----------------------------------------------------------------------------
(* Interaction handlers. *)

(* ToggledSelection keeping the name with its suffix, not the identity. *)
ToggledSelection_raw_name(selected, entry) ==
    IF entry \o LibrarySuffix \in selected
    THEN selected \ {entry \o LibrarySuffix}
    ELSE selected \cup {entry \o LibrarySuffix}

(* ToggledSelection only ever selecting. *)
ToggledSelection_only_selects(selected, entry) == selected \cup {entry}

ToggledSelection(selected, entry) ==
    IF entry \in selected THEN selected \ {entry} ELSE selected \cup {entry}

toggle_library_entry(app, entry, record_history, order) ==
    LET was_selected == entry \in app.selected_entries
        toggled == [app EXCEPT !.selected_entries = ToggledSelection(@, entry)]
        recorded ==
            IF record_history
            THEN [toggled EXCEPT
                    !.action_history = Append(@, SelectionAction(entry, was_selected)),
                    !.history_before = Append(@, Snapshot(app))]
            ELSE toggled
    IN  update_detail_panel(refresh_library_options(recorded), FALSE, order)

(* RestoredSelection forgetting to re-select. *)
RestoredSelection_discards(selected, entry, previous_state) == selected \ {entry}

RestoredSelection(selected, entry, previous_state) ==
    IF previous_state THEN selected \cup {entry} ELSE selected \ {entry}

restore_selection(app, entry, previous_state, order) ==
    update_detail_panel(
        refresh_library_options(
            [app EXCEPT !.selected_entries = RestoredSelection(@, entry, previous_state)]),
        FALSE, order)

(* ClampedCount without the floor at 0. *)
ClampedCount_unclamped(current, delta) == current + delta

ClampedCount(current, delta) == Max(0, current + delta)

(* adjust_instrument_count without the early return on an unchanged tally. *)
adjust_instrument_count_records_always(app, entry, delta, record_history, order) ==
    IF delta = 0 THEN app
    ELSE LET current   == CountOf(app.instrument_counts, entry)
             new_value == ClampedCount(current, delta)
             adjusted  == [app EXCEPT !.instrument_counts = SetCount(@, entry, new_value)]
             recorded  ==
                IF record_history
                THEN [adjusted EXCEPT
                        !.action_history = Append(@, InstrumentAction(entry, new_value - current)),
                        !.history_before = Append(@, Snapshot(app))]
                ELSE adjusted
         IN  update_detail_panel(refresh_instrument_options(recorded), FALSE, order)

(* adjust_instrument_count recording the requested delta, not the applied one. *)
adjust_instrument_count_records_requested(app, entry, delta, record_history, order) ==
    IF delta = 0 THEN app
    ELSE LET current   == CountOf(app.instrument_counts, entry)
             new_value == ClampedCount(current, delta)
             adjusted  == [app EXCEPT !.instrument_counts = SetCount(@, entry, new_value)]
             recorded  ==
                IF record_history
                THEN [adjusted EXCEPT
                        !.action_history = Append(@, InstrumentAction(entry, delta)),
                        !.history_before = Append(@, Snapshot(app))]
                ELSE adjusted
         IN  IF new_value = current THEN app
             ELSE update_detail_panel(refresh_instrument_options(recorded), FALSE, order)

adjust_instrument_count(app, entry, delta, record_history, order) ==
    IF delta = 0 THEN app
    ELSE LET current   == CountOf(app.instrument_counts, entry)
             new_value == ClampedCount(current, delta)
             adjusted  == [app EXCEPT !.instrument_counts = SetCount(@, entry, new_value)]
             recorded  ==
                IF record_history
                THEN [adjusted EXCEPT
                        !.action_history = Append(@, InstrumentAction(entry, new_value - current)),
                        !.history_before = Append(@, Snapshot(app))]
                ELSE adjusted
         IN  IF new_value = current THEN app
             ELSE update_detail_panel(refresh_instrument_options(recorded), FALSE, order)

(* Popped leaving the newest record in the history. *)
Popped_none(history) == history

(* Popped dropping the oldest record instead of the newest. *)
Popped_oldest(history) == SubSeq(history, 2, Len(history))

Popped(history) == SubSeq(history, 1, Len(history) - 1)
Last(history)   == history[Len(history)]

(* UndoneDelta re-applying the delta instead of reversing it. *)
UndoneDelta_reapplied(action) == action.delta

UndoneDelta(action) == -action.delta

undo_last_action(app, order) ==
    IF app.action_history = <<>> THEN app
    ELSE LET action == Last(app.action_history)
             popped == [app EXCEPT !.action_history = Popped(@),
                                   !.history_before = Popped(@)]
         IN  IF action.type = "SelectionAction"
             THEN restore_selection(popped, action.entry, action.previous_state, order)
             ELSE adjust_instrument_count(popped, action.entry, UndoneDelta(action),
                                          FALSE, order)

(* NothingToClear never returning early. *)
NothingToClear_never(app) == FALSE

NothingToClear(app) ==
    /\ app.selected_entries = {}
    /\ ~ \E e \in DOMAIN app.instrument_counts : app.instrument_counts[e] > 0

(* clear_all_selections keeping the history. *)
clear_all_selections_keeps_history(app) ==
    IF NothingToClear(app) THEN app
    ELSE update_detail_panel(
            refresh_instrument_options(
                refresh_library_options(
                    [app EXCEPT !.selected_entries = {},
                                !.instrument_counts = [e \in DOMAIN @ |-> 0]])),
            FALSE, <<>>)

(* clear_all_selections leaving the tallies as they are. *)
clear_all_selections_keeps_tallies(app) ==
    IF NothingToClear(app) THEN app
    ELSE update_detail_panel(
            refresh_instrument_options(
                refresh_library_options(
                    [app EXCEPT !.selected_entries = {},
                                !.action_history = <<>>,
                                !.history_before = <<>>])),
            FALSE, <<>>)

clear_all_selections(app) ==
    IF NothingToClear(app) THEN app
    ELSE update_detail_panel(
            refresh_instrument_options(
                refresh_library_options(
                    [app EXCEPT !.selected_entries = {},
                                !.instrument_counts = [e \in DOMAIN @ |-> 0],
                                !.action_history = <<>>,
                                !.history_before = <<>>])),
            FALSE, <<>>)

-----------------------------------------------------------------------------
(* Initial state: the object after __init__ and compose, before on_mount. *)

StartSleeps == 3

(* The asyncio tasks of _run_start_sequence.  A task is pending at a position
   of its coroutine: 0 before it first runs, k while it awaits the k-th sleep.
   A task cancelled before it first ran is done without having run. *)
NoTask == 0
TaskIds == 1..MaxTasks
Absent == [state |-> "absent", position |-> 0]
Task(position) == [state |-> "pending", position |-> position]
CancelledTask == [state |-> "cancelled", position |-> 0]

Done(task) == task.state # "pending"

InFlight(tasks) == {id \in TaskIds : tasks[id].state = "pending"}

Init ==
    /\ access_token \in AccessTokenValues
    /\ instruments_path \in InstrumentsPathValues
    /\ instruments_suffix = InstrumentsSuffix
    /\ instruments_exclude_substrings = InstrumentsExcludeSubstrings
    /\ selected_order = <<>>
    /\ startup_pc = "mounting"
    /\ library_fetch = NotStarted
    /\ instruments_fetch = NotStarted
    /\ fetch_calls = [library |-> 0, instruments |-> 0]
    /\ library_entries = Composed.library_entries
    /\ selected_entries = Composed.selected_entries
    /\ highlight_index = Composed.highlight_index
    /\ instrument_entries = Composed.instrument_entries
    /\ instrument_counts = Composed.instrument_counts
    /\ instrument_highlight_index = Composed.instrument_highlight_index
    /\ action_history = Composed.action_history
    /\ is_loading = Composed.is_loading
    /\ library_list = Composed.library_list
    /\ instrument_list = Composed.instrument_list
    /\ detail = Composed.detail
    /\ history_before = Composed.history_before
    /\ start_task = NoTask
    /\ start_tasks = [id \in TaskIds |-> Absent]
    /\ start_label = "Start"
    /\ start_outcome = "idle"
    /\ last_op = "compose"

(* The model accepts an interaction only while its result stays in the bounds. *)
Bounded(app) ==
    /\ Len(app.action_history) <= MaxHistory
    /\ \A e \in DOMAIN app.instrument_counts : app.instrument_counts[e] <= MaxTally

(* A handler ran to completion and left `app`; `op` names the operation it
   called on the session state and what came of it. *)
Handled(app, op) ==
    /\ Bounded(app)
    /\ Becomes(app)
    /\ last_op' = op

(* Between two renderings of the running application the selected set may
   have changed, so each handler takes the iteration order anew, from the
   rankings below, and selected_order stays empty; selected_order holds the
   order where the set is given and only rendered.
   The rankings from which the iteration order of the selected set derives.
   The summary sorts the iterated identities stably by lower-case key, so only
   the relative order of identities with equal keys shows: one ranking per
   such order is enough. *)
Orders == {order \in Enumerations(SeqRange(library_entries)) : SortedByLower(order) = order}

-----------------------------------------------------------------------------
(* Startup. *)

(* StartupBegin run again while the fetches of an earlier run are in flight. *)
StartupBegin_reentered ==
    /\ startup_pc \in {"mounting", "gathering"}
    /\ IF ClientError(access_token) # None
       THEN /\ Handled(on_instruments_error(
                           on_library_error(App, ClientError(access_token)),
                           ClientError(access_token), <<>>),
                       "startup")
            /\ startup_pc' = "done"
            /\ UNCHANGED <<library_fetch, instruments_fetch, fetch_calls>>
       ELSE /\ library_fetch' = Pending
            /\ instruments_fetch' = IF instruments_path # None THEN Pending ELSE NotStarted
            /\ fetch_calls' = [library |-> fetch_calls.library + 1,
                               instruments |-> fetch_calls.instruments
                                               + (IF instruments_path # None THEN 1 ELSE 0)]
            /\ startup_pc' = "gathering"
            /\ Handled(App, last_op)
    /\ UNCHANGED <<configVars, startVars>>

StartupBegin ==
    /\ startup_pc = "mounting"
    /\ IF ClientError(access_token) # None
       THEN /\ Handled(on_instruments_error(
                           on_library_error(App, ClientError(access_token)),
                           ClientError(access_token), <<>>),
                       "startup")
            /\ startup_pc' = "done"
            /\ UNCHANGED <<library_fetch, instruments_fetch, fetch_calls>>
       ELSE /\ library_fetch' = Pending
            /\ instruments_fetch' = IF instruments_path # None THEN Pending ELSE NotStarted
            /\ fetch_calls' = [library |-> fetch_calls.library + 1,
                               instruments |-> fetch_calls.instruments
                                               + (IF instruments_path # None THEN 1 ELSE 0)]
            /\ startup_pc' = "gathering"
            /\ Handled(App, last_op)
    /\ UNCHANGED <<configVars, startVars>>

LibraryFetchReturns ==
    /\ library_fetch = Pending
    /\ library_fetch' \in list_contents(LibraryPath, LibraryFolders)
    /\ UNCHANGED <<configVars, startup_pc, instruments_fetch, fetch_calls, sessionVars,
                   widgetVars, startVars, ghostVars>>

InstrumentsFetchReturns ==
    /\ instruments_fetch = Pending
    /\ instruments_fetch' \in list_contents(Strip(instruments_path), InstrumentFolders)
    /\ UNCHANGED <<configVars, startup_pc, library_fetch, fetch_calls, sessionVars,
                   widgetVars, startVars, ghostVars>>

AfterLibraryResult(app, library_result) ==
    IF ~library_result.ok
    THEN on_library_error(app, library_result.value)
    ELSE on_library_loaded(app, process_library_entries(library_result.value))

(* AfterInstrumentsResult reporting an instruments failure on both panels. *)
AfterInstrumentsResult_conflated(app, instrument_task_index, instruments_result) ==
    IF instrument_task_index # NoIndex
    THEN IF instruments_result # NotStarted /\ ~instruments_result.ok
         THEN on_instruments_error(on_library_error(app, instruments_result.value),
                                   instruments_result.value, <<>>)
         ELSE IF instruments_result # NotStarted
         THEN on_instruments_loaded(app, process_instrument_entries(instruments_result.value),
                                    <<>>)
         ELSE on_instruments_loaded(app, <<>>, <<>>)
    ELSE app

AfterInstrumentsResult(app, instrument_task_index, instruments_result) ==
    IF instrument_task_index # NoIndex
    THEN IF instruments_result # NotStarted /\ ~instruments_result.ok
         THEN on_instruments_error(app, instruments_result.value, <<>>)
         ELSE IF instruments_result # NotStarted
         THEN on_instruments_loaded(app, process_instrument_entries(instruments_result.value),
                                    <<>>)
         ELSE on_instruments_loaded(app, <<>>, <<>>)
    ELSE app

StartupJoin ==
    /\ startup_pc = "gathering"
    /\ Completed(library_fetch)
    /\ instruments_fetch = NotStarted \/ Completed(instruments_fetch)
    /\ LET instrument_task_index == IF instruments_path # None THEN 1 ELSE NoIndex
           instruments_result ==
               IF instrument_task_index # NoIndex THEN instruments_fetch ELSE NotStarted
       IN  Handled(AfterInstrumentsResult(AfterLibraryResult(App, library_fetch),
                                          instrument_task_index, instruments_result),
                   "startup")
    /\ startup_pc' = "done"
    /\ library_fetch' = Joined
    /\ instruments_fetch' = IF instruments_fetch = NotStarted THEN NotStarted ELSE Joined
    /\ UNCHANGED <<configVars, fetch_calls, startVars>>

-----------------------------------------------------------------------------
(* Events of the host UI. *)

(* The options an event can carry: those now in the list, an enabled option
   of any index past the list up to MaxIndex, and an enabled option without
   an id. *)
EventOptions(list, prefix) ==
    SeqRange(list)
        \cup { Option("", prefix \o IntText(k), FALSE) : k \in Len(list)..MaxIndex }
        \cup { Option("", None, FALSE) }

(* The options a selection event can carry: those of a highlight event and
   an enabled option whose index is one past the entries. *)
SelectOptions(list, entries, prefix) ==
    EventOptions(list, prefix) \cup { Option("", prefix \o IntText(Len(entries)), FALSE) }

(* The indices a focused #instrument-list can report: None, 0..MaxIndex and
   the index one past the entries. *)
FocusedIndices(entries) == {NoIndex} \cup 0..MaxIndex \cup {Len(entries)}

InRange(index, entries) == 0 <= index /\ index < Len(entries)

(* library_option_selected moving the cursor before it checks the range. *)
library_option_selected_cursor_first(app, option, order) ==
    IF option.disabled THEN app
    ELSE IF option_index(option) = NoIndex THEN app
    ELSE IF ~InRange(option_index(option), app.library_entries)
    THEN [app EXCEPT !.highlight_index = option_index(option)]
    ELSE toggle_library_entry(
            [app EXCEPT !.highlight_index = option_index(option)],
            app.library_entries[option_index(option) + 1], TRUE, order)

library_option_selected(app, option, order) ==
    IF option.disabled THEN app
    ELSE IF option_index(option) = NoIndex THEN app
    ELSE IF ~InRange(option_index(option), app.library_entries) THEN app
    ELSE toggle_library_entry(
            [app EXCEPT !.highlight_index = option_index(option)],
            app.library_entries[option_index(option) + 1], TRUE, order)

instrument_option_selected(app, option, decrement, order) ==
    IF option.disabled THEN app
    ELSE IF option_index(option) = NoIndex THEN app
    ELSE IF ~InRange(option_index(option), app.instrument_entries) THEN app
    ELSE adjust_instrument_count(
            [app EXCEPT !.instrument_highlight_index = option_index(option)],
            app.instrument_entries[option_index(option) + 1],
            IF decrement THEN -1 ELSE 1, TRUE, order)

decrement_at(app, index, order) ==
    IF index # NoIndex /\ InRange(index, app.instrument_entries)
    THEN adjust_instrument_count(
            [app EXCEPT !.instrument_highlight_index = index],
            app.instrument_entries[index + 1], -1, TRUE, order)
    ELSE app

library_option_highlighted(app, option) ==
    IF option_index(option) # NoIndex
    THEN [app EXCEPT !.highlight_index = option_index(option)]
    ELSE app

instrument_option_highlighted(app, option) ==
    IF option_index(option) # NoIndex
    THEN [app EXCEPT !.instrument_highlight_index = option_index(option)]
    ELSE app

Unstarted == UNCHANGED <<configVars, startupVars, startVars>>

Accepted(option, entries) ==
    ~option.disabled /\ option_index(option) # NoIndex /\ InRange(option_index(option), entries)

OutOfRange(option, entries) ==
    ~option.disabled /\ option_index(option) # NoIndex
        /\ ~InRange(option_index(option), entries)

(* What became of a selection event: the operation it called, if any. *)
Selected(option, entries, op) ==
    IF Accepted(option, entries) THEN op
    ELSE IF OutOfRange(option, entries) THEN "ignored (out of range)"
    ELSE last_op

(* What became of a decrement by key or mouse at the focused index. *)
Decremented(index, entries, op) ==
    IF index = NoIndex THEN last_op
    ELSE IF InRange(index, entries) THEN op
    ELSE "ignored (out of range)"

Adjusted(app, delta) ==
    IF delta = 0 THEN "adjust_tally (zero delta)"
    ELSE IF app.instrument_counts # instrument_counts THEN "adjust_tally"
    ELSE "adjust_tally (no change)"

Undone ==
    IF action_history = <<>> THEN "undo (empty history)"
    ELSE "undo " \o Last(action_history).type

(* The selection of one given option of #library-list. *)
LibraryOptionSelectedWith(option) ==
    /\ \E order \in Orders :
          Handled(library_option_selected(App, option, order),
                  Selected(option, library_entries, "toggle_selection"))
    /\ Unstarted

LibraryOptionSelected ==
    \E option \in SelectOptions(library_list, library_entries, "entry-") :
        LibraryOptionSelectedWith(option)

(* The selection of one given option of #instrument-list. *)
InstrumentOptionSelectedWith(option, decrement) ==
    /\ \E order \in Orders :
          Handled(instrument_option_selected(App, option, decrement, order),
                  Selected(option, instrument_entries,
                           Adjusted(instrument_option_selected(App, option, decrement, order),
                                    IF decrement THEN -1 ELSE 1)))
    /\ Unstarted

InstrumentOptionSelected ==
    \E option \in SelectOptions(instrument_list, instrument_entries, "instrument-"),
       decrement \in BOOLEAN :
        InstrumentOptionSelectedWith(option, decrement)

(* Backspace or delete while #instrument-list is focused at `index`. *)
OnKeyAt(index) ==
    /\ \E order \in Orders :
          Handled(decrement_at(App, index, order),
                  Decremented(index, instrument_entries,
                              Adjusted(decrement_at(App, index, order), -1)))
    /\ Unstarted

OnKey == \E index \in FocusedIndices(instrument_entries) : OnKeyAt(index)

(* A right click on #instrument-list while its cursor is at `index`. *)
OnMouseDownAt(index) ==
    /\ \E order \in Orders :
          Handled(decrement_at(App, index, order),
                  Decremented(index, instrument_entries,
                              Adjusted(decrement_at(App, index, order), -1)))
    /\ Unstarted

OnMouseDown == \E index \in FocusedIndices(instrument_entries) : OnMouseDownAt(index)

LibraryOptionHighlighted ==
    /\ \E option \in EventOptions(library_list, "entry-") :
          Handled(library_option_highlighted(App, option), last_op)
    /\ Unstarted

InstrumentOptionHighlighted ==
    /\ \E option \in EventOptions(instrument_list, "instrument-") :
          Handled(instrument_option_highlighted(App, option), last_op)
    /\ Unstarted

(* adjust_tally(entry, delta) on a listed instrument, with any delta. *)
AdjustTallyCall(entry, delta) ==
    /\ \E order \in Orders :
          Handled(adjust_instrument_count(App, entry, delta, TRUE, order),
                  Adjusted(adjust_instrument_count(App, entry, delta, TRUE, order), delta))
    /\ Unstarted

AdjustTally ==
    \E i \in 1..Len(instrument_entries), delta \in (-MaxDelta)..MaxDelta :
        AdjustTallyCall(instrument_entries[i], delta)

UndoPressed ==
    /\ \E order \in Orders : Handled(undo_last_action(App, order), Undone)
    /\ Unstarted

ClearPressed ==
    /\ Handled(clear_all_selections(App),
               IF NothingToClear(App) THEN "clear_all (nothing to clear)" ELSE "clear_all")
    /\ Unstarted

-----------------------------------------------------------------------------
(* The background start task. *)

(* The single-flight guard of _handle_start_button without its test. *)
StartRunning_never(task, tasks) == FALSE

(* self._start_task and not self._start_task.done() *)
StartRunning(task, tasks) == task # NoTask /\ ~Done(tasks[task])

(* The tasks once self._start_task is rebound: a done task it referred to
   is dropped. *)
Released(task, tasks) ==
    IF task # NoTask /\ Done(tasks[task]) THEN [tasks EXCEPT ![task] = Absent] ELSE tasks

FreeIds(tasks) == {id \in TaskIds : tasks[id] = Absent}

StartPressed ==
    /\ IF StartRunning(start_task, start_tasks)
       THEN /\ start_outcome' = "ignored (running)"
            /\ UNCHANGED <<start_task, start_tasks>>
       ELSE /\ FreeIds(Released(start_task, start_tasks)) # {}
            /\ LET released == Released(start_task, start_tasks)
                   id == CHOOSE free \in FreeIds(released) :
                            \A other \in FreeIds(released) : free <= other
               IN  /\ start_tasks' = [released EXCEPT ![id] = Task(0)]
                   /\ start_task' = id
            /\ start_outcome' = "started"
    /\ UNCHANGED <<configVars, startupVars, sessionVars, widgetVars, start_label, ghostVars>>

(* StartTaskFinally forgetting to reset the label. *)
StartTaskFinally_leaves_label(id) ==
    /\ start_label' = start_label
    /\ start_task' = NoTask
    /\ start_tasks' = [start_tasks EXCEPT ![id] = Absent]
    /\ start_outcome' = "completed"

(* The finally clause of _run_start_sequence, run by task `id`. *)
StartTaskFinally(id) ==
    /\ start_label' = "Start"
    /\ start_task' = NoTask
    /\ start_tasks' = [start_tasks EXCEPT ![id] = Absent]
    /\ start_outcome' = "completed"

(* The event loop runs task `id` to its next await, or to its end. *)
StartTaskRuns(id) ==
    /\ start_tasks[id].state = "pending"
    /\ IF start_tasks[id].position = 0
       THEN /\ start_label' = "In progress..."
            /\ start_tasks' = [start_tasks EXCEPT ![id] = Task(1)]
            /\ UNCHANGED <<start_task, start_outcome>>
       ELSE IF start_tasks[id].position < StartSleeps
       THEN /\ start_tasks' = [start_tasks EXCEPT ![id] = Task(@.position + 1)]
            /\ UNCHANGED <<start_task, start_label, start_outcome>>
       ELSE StartTaskFinally(id)
    /\ UNCHANGED <<configVars, startupVars, sessionVars, widgetVars, ghostVars>>

StartTaskStep == \E id \in TaskIds : StartTaskRuns(id)

(* The event loop cancels task `id`, as it does with the tasks left when the
   process exits: a task that never ran is done at once, a task awaiting a
   sleep gets CancelledError there and runs its finally clause. *)
StartTaskCancelled ==
    /\ \E id \in TaskIds :
          /\ start_tasks[id].state = "pending"
          /\ IF start_tasks[id].position = 0
             THEN /\ start_tasks' = [start_tasks EXCEPT ![id] = CancelledTask]
                  /\ start_outcome' = "cancelled (never ran)"
                  /\ UNCHANGED <<start_task, start_label>>
             ELSE StartTaskFinally(id)
    /\ UNCHANGED <<configVars, startupVars, sessionVars, widgetVars, ghostVars>>

-----------------------------------------------------------------------------

(* Startup and the handlers of the session state. *)
SessionNext ==
    \/ StartupBegin
    \/ LibraryFetchReturns
    \/ InstrumentsFetchReturns
    \/ StartupJoin
    \/ LibraryOptionSelected
    \/ InstrumentOptionSelected
    \/ OnKey
    \/ OnMouseDown
    \/ LibraryOptionHighlighted
    \/ InstrumentOptionHighlighted
    \/ AdjustTally
    \/ UndoPressed
    \/ ClearPressed

(* The start task reads and writes only the variables of startVars. *)
StartNext ==
    \/ StartPressed
    \/ StartTaskStep
    \/ StartTaskCancelled

Next == SessionNext \/ StartNext

(* The whole application. *)
Spec == Init /\ [][Next]_vars

(* The detail panel as a function: the session states it is computed from,
   and its computation. *)
ProjectionLibraries   == { <<>>, <<"a", "A", "b", "B">> }
ProjectionInstruments == { <<>>, <<"bass", "Sax">> }

ProjectionInit ==
    /\ access_token = "ok"
    /\ instruments_path = " /instruments "
    /\ instruments_suffix = InstrumentsSuffix
    /\ instruments_exclude_substrings = InstrumentsExcludeSubstrings
    /\ startup_pc = "done"
    /\ library_fetch = Joined
    /\ instruments_fetch = Joined
    /\ fetch_calls = [library |-> 1, instruments |-> 1]
    /\ library_entries \in ProjectionLibraries
    /\ selected_entries \in SUBSET SeqRange(library_entries)
    /\ selected_order \in Enumerations(selected_entries)
    /\ highlight_index = 0
    /\ instrument_entries \in ProjectionInstruments
    /\ instrument_counts \in [SeqRange(instrument_entries) -> 0..MaxTally]
    /\ instrument_highlight_index = 0
    /\ action_history = <<>>
    /\ history_before = <<>>
    /\ is_loading = FALSE
    /\ library_list =
          refresh_library_options(
              [Composed EXCEPT !.library_entries = library_entries,
                               !.selected_entries = selected_entries]).library_list
    /\ instrument_list =
          refresh_instrument_options(
              [Composed EXCEPT !.instrument_entries = instrument_entries,
                               !.instrument_counts = instrument_counts]).instrument_list
    /\ detail = Composed.detail
    /\ start_task = NoTask
    /\ start_tasks = [id \in TaskIds |-> Absent]
    /\ start_label = "Start"
    /\ start_outcome = "idle"
    /\ last_op = "compose"

RenderDetail ==
    /\ Handled(update_detail_panel(App, FALSE, selected_order), "update_detail_panel")
    /\ Unstarted

ProjectionNext == RenderDetail

ProjectionSpec == ProjectionInit /\ [][ProjectionNext]_vars

(* The Entry Processor as a function: the listings, suffixes and exclusions
   it is given, and its computation. *)
ProcessorNames ==
    { "[file] song_altsax.pdf", "[file] draft_altsax.pdf", "[draft] Sax_alt.pdf",
      "bass_alt.pdf", "[x", "_alt.pdf", "[a] [b] c.pdf" }
ProcessorListings ==
    UNION { [1..n -> ProcessorNames] : n \in 0..MaxRaw }
ProcessorSuffixes   == { None, "", "_alt.pdf", "_altsax.pdf" }
ProcessorExclusions == { None, "draft", " draft ,,", ".pdf,b] " }

ProcessorInit ==
    /\ access_token = "ok"
    /\ instruments_path = " /instruments "
    /\ instruments_suffix \in ProcessorSuffixes
    /\ instruments_exclude_substrings \in ProcessorExclusions
    /\ selected_order = <<>>
    /\ startup_pc = "gathering"
    /\ library_fetch = Pending
    /\ instruments_fetch \in { Returned(names) : names \in ProcessorListings }
    /\ fetch_calls = [library |-> 1, instruments |-> 1]
    /\ library_entries = Composed.library_entries
    /\ selected_entries = Composed.selected_entries
    /\ highlight_index = Composed.highlight_index
    /\ instrument_entries = Composed.instrument_entries
    /\ instrument_counts = Composed.instrument_counts
    /\ instrument_highlight_index = Composed.instrument_highlight_index
    /\ action_history = Composed.action_history
    /\ is_loading = Composed.is_loading
    /\ library_list = Composed.library_list
    /\ instrument_list = Composed.instrument_list
    /\ detail = Composed.detail
    /\ history_before = Composed.history_before
    /\ start_task = NoTask
    /\ start_tasks = [id \in TaskIds |-> Absent]
    /\ start_label = "Start"
    /\ start_outcome = "idle"
    /\ last_op = "compose"

(* instruments_entries = self._process_instrument_entries(list(instruments_result)) *)
ProcessEntries ==
    /\ last_op = "compose"
    /\ Handled([App EXCEPT !.instrument_entries =
                              process_instrument_entries(instruments_fetch.value)],
               "process_instrument_entries")
    /\ Unstarted

ProcessorNext == ProcessEntries

ProcessorSpec == ProcessorInit /\ [][ProcessorNext]_vars

(* The application while the Start button is left alone.  The start task
   shares no variable with startup or with the session handlers, so what
   holds of the session state here holds of it under Spec. *)
SessionSpec == Init /\ [][SessionNext]_vars

(* The whole application, the event loop running every pending start task
   again and again. *)
FairSpec == Spec /\ WF_vars(StartTaskStep)

-----------------------------------------------------------------------------
(* The status of a panel, read off what its option list shows. *)

LibraryStatus ==
    IF library_list = Composed.library_list THEN "Loading"
    ELSE IF Len(library_list) = 1 /\ library_list[1].disabled
            /\ StartsWith(library_list[1].prompt, "Unable to load Dropbox contents:")
    THEN "Error"
    ELSE "Ready"

InstrumentsStatus ==
    IF instrument_list = Composed.instrument_list THEN "Loading"
    ELSE IF Len(instrument_list) = 1 /\ instrument_list[1].disabled
            /\ StartsWith(instrument_list[1].prompt, "Unable to load instruments:")
    THEN "Error"
    ELSE "Ready"

-----------------------------------------------------------------------------
(* Undo and clear_all. *)

(* C1: undo() of a toggle leaves the selected set equal to the selected set
   that held immediately before that toggle: whenever the most recent
   history record is a SelectionToggle, in particular right after a sequence
   of toggle_selection calls, one undo() restores the set the toggle found. *)
C1_UndoRestoresSelectionBeforeToggle ==
    [][ ( /\ UndoPressed
          /\ action_history # <<>>
          /\ Last(action_history).type = "SelectionAction" )
        => selected_entries' = Last(history_before).selected_entries ]_vars

C1_Witness ==
    /\ last_op = "undo SelectionAction"
    /\ selected_entries # {}
    /\ action_history # <<>>
    /\ Last(action_history).type = "SelectionAction"

(* C2 as stated: in every reachable state clear_all() followed immediately
   by undo() leaves the selected set, the tally map and the history as
   clear_all() left them, the history being empty after clear_all(). *)
C2_UndoAfterAnyClearAllIsNoOp ==
    [][ ( /\ last_op \in {"clear_all", "clear_all (nothing to clear)"}
          /\ UndoPressed )
        => /\ action_history = <<>>
           /\ UNCHANGED <<selected_entries, instrument_counts, action_history>> ]_vars

(* C2 amended: a clear_all() that finds an entry selected or a tally above 0
   leaves the history empty, and an undo() that follows it immediately
   changes neither the selected set, the tally map nor the history. *)
C2_UndoAfterClearingIsNoOp ==
    [][ ( /\ last_op = "clear_all"
          /\ UndoPressed )
        => /\ action_history = <<>>
           /\ UNCHANGED <<selected_entries, instrument_counts, action_history>> ]_vars

C2_Witness ==
    /\ last_op = "clear_all"
    /\ library_entries # <<>>
    /\ instrument_entries # <<>>
    /\ startup_pc = "done"

(* C9: when an entry is selected or a tally is above 0, clear_all() leaves
   in one step the selected set empty, every tally 0 with the same
   identities in the tally map, and the history empty. *)
C9_ClearAllResetsEverything ==
    [][ ( /\ ClearPressed
          /\ \/ selected_entries # {}
             \/ \E e \in DOMAIN instrument_counts : instrument_counts[e] > 0 )
        => /\ selected_entries' = {}
           /\ DOMAIN instrument_counts' = DOMAIN instrument_counts
           /\ \A e \in DOMAIN instrument_counts' : instrument_counts'[e] = 0
           /\ action_history' = <<>> ]_vars

C9_Witness ==
    /\ last_op = "clear_all"
    /\ selected_entries = {}
    /\ DOMAIN instrument_counts # {}
    /\ \A e \in DOMAIN instrument_counts : instrument_counts[e] = 0
    /\ action_history = <<>>

(* C10: when nothing is selected and every tally is 0, clear_all() changes
   nothing: the selected set, the tally map, the history, both cursors and
   everything rendered stay as they are. *)
C10_ClearAllWithNothingToClearIsNoOp ==
    [][ ( /\ ClearPressed
          /\ selected_entries = {}
          /\ \A e \in DOMAIN instrument_counts : instrument_counts[e] = 0 )
        => UNCHANGED <<sessionVars, widgetVars>> ]_vars

C10_Witness ==
    /\ last_op = "clear_all (nothing to clear)"
    /\ action_history # <<>>
    /\ selected_entries = {}
    /\ \A e \in DOMAIN instrument_counts : instrument_counts[e] = 0

-----------------------------------------------------------------------------
(* Tallies. *)

(* C3: in every reachable state every tally of the tally map is >= 0. *)
C3_TalliesNeverNegative ==
    \A e \in DOMAIN instrument_counts : instrument_counts[e] >= 0

C3_Witness ==
    /\ last_op = "adjust_tally"
    /\ action_history # <<>>
    /\ Last(action_history).type = "InstrumentAction"
    /\ Last(action_history).delta = -1
    /\ Last(history_before).instrument_counts[Last(action_history).entry] = 1
    /\ instrument_counts[Last(action_history).entry] = 0

(* C4: adjust_tally(e, delta) whose clamped result max(0, current + delta)
   equals the current tally changes nothing: the tally map, the selected
   set and the history stay as they are and no record is pushed. *)
C4_UnchangedTallyIsNoOp ==
    [][ \A e \in SeqRange(instrument_entries), delta \in (-MaxDelta)..MaxDelta :
          ( /\ Max(0, CountOf(instrument_counts, e) + delta) = CountOf(instrument_counts, e)
            /\ AdjustTallyCall(e, delta) )
          => UNCHANGED <<instrument_counts, selected_entries, action_history,
                         history_before>> ]_vars

C4_Witness ==
    /\ last_op = "adjust_tally (no change)"
    /\ action_history # <<>>
    /\ \E e \in DOMAIN instrument_counts : instrument_counts[e] = 0

(* C8: undo() of a TallyAdjustment{e, d} sets the tally of e to the value it
   had immediately before that adjustment was applied, leaves every other
   tally and the selected set unchanged, and only pops the record. *)
C8_UndoRestoresExactTally ==
    [][ ( /\ UndoPressed
          /\ action_history # <<>>
          /\ Last(action_history).type = "InstrumentAction" )
        => LET e == Last(action_history).entry
           IN  /\ DOMAIN instrument_counts' = DOMAIN instrument_counts
               /\ instrument_counts'[e] = CountOf(Last(history_before).instrument_counts, e)
               /\ \A other \in DOMAIN instrument_counts \ {e} :
                      instrument_counts'[other] = instrument_counts[other]
               /\ selected_entries' = selected_entries
               /\ action_history' = Popped(action_history) ]_vars

C8_Witness ==
    /\ last_op = "undo InstrumentAction"
    /\ \E e \in DOMAIN instrument_counts : instrument_counts[e] > 0
    /\ action_history # <<>>

-----------------------------------------------------------------------------
(* Startup. *)

(* C5: startup isolation: when startup joins its fetches, each panel's
   status follows from its own fetch alone: a panel whose fetch failed shows
   Error with that fetch's message, a panel whose fetch returned is Ready
   with its processed entries, whichever fetch completed first. *)
C5_StartupIsolation ==
    [][ StartupJoin
        => /\ library_fetch.ok
                => /\ LibraryStatus' = "Ready"
                   /\ library_entries' = process_library_entries(library_fetch.value)
           /\ ~library_fetch.ok
                => /\ LibraryStatus' = "Error"
                   /\ library_list' = <<LibraryErrorOption(library_fetch.value)>>
                   /\ library_entries' = <<>>
           /\ (Completed(instruments_fetch) /\ instruments_fetch.ok)
                => /\ InstrumentsStatus' = "Ready"
                   /\ instrument_entries'
                        = process_instrument_entries(instruments_fetch.value)
                   /\ DOMAIN instrument_counts' = SeqRange(instrument_entries')
           /\ (Completed(instruments_fetch) /\ ~instruments_fetch.ok)
                => /\ InstrumentsStatus' = "Error"
                   /\ instrument_list' = <<InstrumentsErrorOption(instruments_fetch.value)>>
                   /\ instrument_entries' = <<>> ]_vars

C5_Witness ==
    /\ startup_pc = "done"
    /\ last_op = "startup"
    /\ LibraryStatus = "Error"
    /\ InstrumentsStatus = "Ready"
    /\ instrument_entries = <<"Bass", "sax">>

(* C6: when no instruments path is configured and the client connects, once
   startup is done no instruments fetch was made, no instruments error is
   shown, and the instruments panel is Ready with an empty entry list and an
   empty tally map, whatever the library fetch gave. *)
C6_NoInstrumentsPathGivesEmptyReadyPanel ==
    ( /\ startup_pc = "done"
      /\ instruments_path = None
      /\ ClientError(access_token) = None )
    => /\ fetch_calls.instruments = 0
       /\ InstrumentsStatus = "Ready"
       /\ instrument_entries = <<>>
       /\ instrument_counts = NoCounts

-----------------------------------------------------------------------------
(* Highlight cursors. *)

CursorWithin(cursor, entries) ==
    IF entries = <<>> THEN cursor = 0 ELSE 0 <= cursor /\ cursor < Len(entries)

(* C7: in every reachable state each panel's highlight cursor is 0 when the
   panel's list is empty and an index of the list otherwise, also after a
   highlight_moved notification carrying any index. *)
C7_CursorsWithinBounds ==
    /\ CursorWithin(highlight_index, library_entries)
    /\ CursorWithin(instrument_highlight_index, instrument_entries)

-----------------------------------------------------------------------------
(* The operations of the session state, one by one. *)

(* C11: toggle_selection on a known entry of a Ready library panel flips the
   membership of exactly that entry in the selected set, leaves the tally map
   as it is, and appends exactly one SelectionToggle record holding the entry
   and its membership before the flip; two toggles of the same entry leave
   two records, in call order. *)
C11_ToggleFlipsOneEntryAndAppendsOneRecord ==
    [][ \A option \in SelectOptions(library_list, library_entries, "entry-") :
          ( /\ LibraryStatus = "Ready"
            /\ Accepted(option, library_entries)
            /\ LibraryOptionSelectedWith(option) )
          => LET entry == library_entries[option_index(option) + 1]
             IN  /\ (entry \in selected_entries') <=> (entry \notin selected_entries)
                 /\ selected_entries' \ {entry} = selected_entries \ {entry}
                 /\ instrument_counts' = instrument_counts
                 /\ action_history'
                      = Append(action_history,
                               SelectionAction(entry, entry \in selected_entries)) ]_vars

C11_Witness ==
    /\ last_op = "toggle_selection"
    /\ LibraryStatus = "Ready"
    /\ Len(action_history) = 2
    /\ action_history[1] = SelectionAction(action_history[1].entry, FALSE)
    /\ action_history[2] = SelectionAction(action_history[1].entry, TRUE)
    /\ action_history[1].entry \notin selected_entries

(* C12: when adjust_tally(e, delta) changes the tally of e, the new tally is
   max(0, current + delta), no other tally and no selection changes, and
   exactly one TallyAdjustment record is appended, whose delta is the applied
   delta new - current; and in every reachable state every TallyAdjustment
   record of the history has a delta other than 0. *)
C12_AdjustRecordsAppliedDelta ==
    /\ [][ \A e \in SeqRange(instrument_entries), delta \in (-MaxDelta)..MaxDelta :
             ( /\ instrument_counts' # instrument_counts
               /\ AdjustTallyCall(e, delta) )
             => LET current == CountOf(instrument_counts, e)
                    new     == Max(0, current + delta)
                IN  /\ instrument_counts' = SetCount(instrument_counts, e, new)
                    /\ selected_entries' = selected_entries
                    /\ action_history'
                         = Append(action_history, InstrumentAction(e, new - current)) ]_vars
    /\ [](\A i \in 1..Len(action_history) :
             action_history[i].type = "InstrumentAction" => action_history[i].delta # 0)

C12_Witness ==
    /\ last_op = "adjust_tally"
    /\ Len(action_history) = 2
    /\ action_history[1] = InstrumentAction(action_history[2].entry, 2)
    /\ action_history[2] = InstrumentAction(action_history[1].entry, -2)
    /\ instrument_counts[action_history[2].entry] = 0

(* C13: undo() only consumes history: with a non-empty history it removes
   exactly the most recent record and appends none, so that the history is
   the old one without its last record; with an empty history it changes
   nothing of the session state or of what is rendered. *)
C13_UndoOnlyPopsTheLastRecord ==
    [][ UndoPressed
        => IF action_history = <<>>
           THEN UNCHANGED <<sessionVars, widgetVars>>
           ELSE /\ action_history' = SubSeq(action_history, 1, Len(action_history) - 1)
                /\ Len(action_history') = Len(action_history) - 1 ]_vars

C13_Witness ==
    /\ last_op = "undo InstrumentAction"
    /\ Len(action_history) = 1
    /\ action_history[1].type = "SelectionAction"
    /\ selected_entries # {}

-----------------------------------------------------------------------------
(* Panel status and rejected interactions. *)

(* A panel leaves no status but Loading. *)
PanelsOnlyLeaveLoading ==
    /\ LibraryStatus' # LibraryStatus => LibraryStatus = "Loading"
    /\ InstrumentsStatus' # InstrumentsStatus => InstrumentsStatus = "Loading"

(* A select, increment or decrement event on a panel that is not Ready
   changes neither the selected set, the tally map nor the history. *)
InteractionsOnlyInReady ==
    /\ (LibraryStatus # "Ready" /\ LibraryOptionSelected)
            => UNCHANGED <<selected_entries, instrument_counts, action_history>>
    /\ (InstrumentsStatus # "Ready"
            /\ (InstrumentOptionSelected \/ OnKey \/ OnMouseDown \/ AdjustTally))
            => UNCHANGED <<selected_entries, instrument_counts, action_history>>

(* C14: each panel follows the state machine Loading -> Ready | Error, and
   while a panel is Loading or Error every select, increment or decrement
   event addressed to it, with any index, leaves the selected set, the tally
   map and the history unchanged. *)
C14_PanelStateMachineAndRejection ==
    /\ [][PanelsOnlyLeaveLoading]_vars
    /\ [][InteractionsOnlyInReady]_vars

(* Rejection alone: the events on a panel that is not Ready change nothing. *)
RejectedOutsideReady == [][InteractionsOnlyInReady]_vars

(* C15: a select, increment or decrement event whose index is outside
   0..len(list)-1 of its panel is ignored: the handler returns normally and
   the selected set, the tally map, the history and both cursors are as they
   were. *)
C15_OutOfRangeEventsAreIgnored ==
    [][ /\ \A option \in SelectOptions(library_list, library_entries, "entry-") :
              (OutOfRange(option, library_entries) /\ LibraryOptionSelectedWith(option))
              => UNCHANGED <<selected_entries, instrument_counts, action_history,
                             highlight_index, instrument_highlight_index>>
        /\ \A option \in SelectOptions(instrument_list, instrument_entries, "instrument-"),
              decrement \in BOOLEAN :
              (OutOfRange(option, instrument_entries)
                  /\ InstrumentOptionSelectedWith(option, decrement))
              => UNCHANGED <<selected_entries, instrument_counts, action_history,
                             highlight_index, instrument_highlight_index>>
        /\ \A index \in FocusedIndices(instrument_entries) \ {NoIndex} :
              (~InRange(index, instrument_entries) /\ (OnKeyAt(index) \/ OnMouseDownAt(index)))
              => UNCHANGED <<selected_entries, instrument_counts, action_history,
                             highlight_index, instrument_highlight_index>> ]_vars

C15_Witness ==
    /\ last_op = "ignored (out of range)"
    /\ library_entries # <<>>
    /\ instrument_entries # <<>>
    /\ selected_entries # {}
    /\ \E e \in DOMAIN instrument_counts : instrument_counts[e] > 0
    /\ Len(action_history) = 2
    /\ highlight_index = 1

-----------------------------------------------------------------------------
(* The background start task. *)

(* C16: at most one start task is in flight in every reachable state, and a
   start() trigger received while a start task is running creates no task
   and changes nothing, wherever the running task stands. *)
C16_SingleFlightStart ==
    /\ [](Cardinality(InFlight(start_tasks)) <= 1)
    /\ [][ (StartPressed /\ InFlight(start_tasks) # {})
            => UNCHANGED <<start_task, start_tasks, start_label, sessionVars, widgetVars>> ]_vars

C16_Witness ==
    /\ start_outcome = "ignored (running)"
    /\ start_task # NoTask
    /\ start_tasks[start_task] = Task(2)
    /\ InFlight(start_tasks) = {start_task}
    /\ start_label = "In progress..."

(* C17: every started start task eventually completes; the step that
   completes it, normally or by cancellation, leaves the label at the idle
   label "Start" and no running task behind self._start_task; and a start()
   trigger received when no task is running launches a new task. *)
C17_StartTaskCompletesAndResets ==
    /\ \A id \in TaskIds :
          (start_tasks[id].state = "pending") ~> (start_tasks[id].state # "pending")
    /\ [][ \A id \in TaskIds :
              (start_tasks[id].state = "pending" /\ start_tasks'[id].state # "pending")
              => /\ start_label' = "Start"
                 /\ ~StartRunning(start_task', start_tasks') ]_vars
    /\ [][ (StartPressed /\ InFlight(start_tasks) = {})
            => /\ Cardinality(InFlight(start_tasks')) = 1
               /\ start_tasks'[start_task'] = Task(0) ]_vars

C17_Witness ==
    /\ start_outcome = "completed"
    /\ start_label = "Start"
    /\ start_task = NoTask
    /\ InFlight(start_tasks) = {}
    /\ startup_pc = "done"

-----------------------------------------------------------------------------
(* The detail panel. *)

(* The Detail Projection of the current selected set and tally map, computed
   afresh. *)
DetailProjections == {update_detail_panel(App, FALSE, order).detail : order \in Orders}

(* The detail panel after a library load error that no later rendering
   replaced. *)
DetailUnavailable == update_detail_panel(App, TRUE, <<>>).detail

(* C18: no projection shown is stale: in every reachable state, so after
   every panel load, panel load error, toggle_selection, adjust_tally, undo
   and clear_all, the selection summary and the tally summary shown are the
   Detail Projection of the current selected set and tally map. *)
C18_DetailNeverStale == detail \in DetailProjections

(* What is shown is the projection or the notice of a failed library load. *)
DetailCurrentOrUnavailable ==
    \/ detail \in DetailProjections
    \/ LibraryStatus = "Error" /\ detail = DetailUnavailable

LinesOf(text) == Split(text, "\n")

SortedCaseInsensitively(names) ==
    \A i, j \in 1..Len(names) : i < j => ~StrLess(Lower(names[j]), Lower(names[i]))

(* C19: the detail panel computed from a selected set and a tally map shows,
   for the selection, the number of selected identities and those identities
   one per line in case-insensitive order ({"b","a"} gives a then b, {"a","B"}
   gives a then B); for the tallies, the number of identities with a tally
   above 0 and exactly those as "identity: count" in case-insensitive order
   of the identities; each body is its placeholder exactly when there is
   nothing to list; computing it reads the state only, and computing it
   again without a mutation shows the same. *)
C19_DetailProjectionIsAFunctionOfState ==
    /\ [](last_op = "update_detail_panel" =>
            /\ detail.library_title
                 = "Selected items (" \o IntText(Cardinality(selected_entries)) \o ")"
            /\ (detail.library = DetailLibraryPlaceholder) <=> (selected_entries = {})
            /\ selected_entries # {} =>
                 /\ Len(LinesOf(detail.library)) = Cardinality(selected_entries)
                 /\ SeqRange(LinesOf(detail.library)) = selected_entries
                 /\ SortedCaseInsensitively(LinesOf(detail.library))
            /\ selected_entries = {"b", "a"} => detail.library = "a\nb"
            /\ selected_entries = {"a", "B"} => detail.library = "a\nB"
            /\ LET counted == {e \in DOMAIN instrument_counts : instrument_counts[e] > 0}
               IN  /\ detail.instruments_title
                        = "Instrument counts (" \o IntText(Cardinality(counted)) \o ")"
                   /\ (detail.instruments = DetailInstrumentsPlaceholder) <=> (counted = {})
                   /\ counted # {} =>
                        \E ids \in Enumerations(counted) :
                            /\ SortedCaseInsensitively(ids)
                            /\ LinesOf(detail.instruments)
                                 = [i \in 1..Len(ids) |->
                                      ids[i] \o ": " \o IntText(instrument_counts[ids[i]])])
    /\ [][ RenderDetail
            => /\ UNCHANGED <<sessionVars, library_list, instrument_list>>
               /\ last_op = "update_detail_panel" => detail' = detail ]_vars

C19_Witness ==
    /\ last_op = "update_detail_panel"
    /\ selected_entries = {"a", "A", "B"}
    /\ detail.library = "A\na\nB"
    /\ instrument_counts = [e \in {"bass", "Sax"} |-> IF e = "bass" THEN 2 ELSE 0]
    /\ detail.instruments = "bass: 2"

-----------------------------------------------------------------------------
(* The Entry Processor. *)

(* Step 1: a name that starts with "[" and contains "] " loses everything up
   to and including the first "] ". *)
WithoutTypeIndicator(raw) ==
    LET closings == {p \in 1..(Len(raw) - 1) : SubSeq(raw, p, p + 1) = "] "}
    IN  IF Len(raw) > 0 /\ SubSeq(raw, 1, 1) = "[" /\ closings # {}
        THEN LET first == CHOOSE p \in closings : \A q \in closings : p <= q
             IN  SubSeq(raw, first + 2, Len(raw))
        ELSE raw

(* Step 2: a name that ends with the configured suffix loses it. *)
WithoutSuffix(name, suffix) ==
    IF suffix # None /\ Len(suffix) > 0 /\ Len(name) >= Len(suffix)
        /\ SubSeq(name, Len(name) - Len(suffix) + 1, Len(name)) = suffix
    THEN SubSeq(name, 1, Len(name) - Len(suffix))
    ELSE name

(* Step 3: a name is dropped when a non-empty exclusion occurs in it. *)
Excluded(name, exclusions) ==
    \E x \in exclusions :
        /\ x # ""
        /\ \E p \in 1..(Len(name) - Len(x) + 1) : SubSeq(name, p, p + Len(x) - 1) = x

Occurrences(names, name) == Cardinality({i \in 1..Len(names) : names[i] = name})

(* C20: for every listing, suffix and exclusions the Entry Processor returns,
   in case-insensitive order, exactly the names obtained by stripping the
   leading type indicator, then the suffix, and then dropping the names in
   which a non-empty exclusion occurs, each as often as it is obtained;
   ["[file] song_altsax.pdf"] with suffix "_altsax.pdf" and exclusion
   "draft" gives ["song"], and ["[file] draft_altsax.pdf"] gives []. *)
C20_EntryProcessorStepsInOrder ==
    last_op = "process_instrument_entries" =>
        LET raw   == instruments_fetch.value
            names == [i \in 1..Len(raw) |->
                        WithoutSuffix(WithoutTypeIndicator(raw[i]), instruments_suffix)]
            kept  == SelectSeq(names,
                               LAMBDA n : ~Excluded(n, SeqRange(instrument_exclusions)))
        IN  /\ SortedCaseInsensitively(instrument_entries)
            /\ Len(instrument_entries) = Len(kept)
            /\ \A n \in SeqRange(kept) :
                   Occurrences(instrument_entries, n) = Occurrences(kept, n)
            /\ (instruments_suffix = "_altsax.pdf" /\ instruments_exclude_substrings = "draft")
                   => /\ raw = <<"[file] song_altsax.pdf">> => instrument_entries = <<"song">>
                      /\ raw = <<"[file] draft_altsax.pdf">> => instrument_entries = <<>>

C20_Witness ==
    /\ last_op = "process_instrument_entries"
    /\ instruments_fetch.value = <<"[draft] Sax_alt.pdf", "bass_alt.pdf">>
    /\ instruments_suffix = "_alt.pdf"
    /\ instruments_exclude_substrings = " draft ,,"
    /\ instrument_entries = <<"bass", "Sax">>

-----------------------------------------------------------------------------
(* Startup under fair scheduling. *)

(* The instruments fetch is with its worker thread: InstrumentsFetchReturns
   is possible. *)
InstrumentsFetchInFlight == instruments_fetch = Pending

(* Every fetch handed to the gather has completed: StartupJoin is possible. *)
GatherComplete ==
    /\ startup_pc = "gathering"
    /\ Completed(library_fetch)
    /\ instruments_fetch = NotStarted \/ Completed(instruments_fetch)

(* on_mount awaits _startup, so the framework runs it once the application
   is mounted; every fetch handed to a worker thread returns or raises; and
   the gather resumes _startup once all its fetches have completed.  The
   last two conjuncts are the weak fairness of InstrumentsFetchReturns and
   of StartupJoin, written out with the state predicates that say when each
   is possible. *)
StartupFairSpec ==
    /\ SessionSpec
    /\ WF_vars(StartupBegin)
    /\ WF_vars(LibraryFetchReturns)
    /\ []<>(~InstrumentsFetchInFlight) \/ []<><<InstrumentsFetchReturns>>_vars
    /\ []<>(~GatherComplete) \/ []<><<StartupJoin>>_vars

(* C21: startup always completes: when every started fetch eventually returns
   or fails, the library panel and the instruments panel each eventually
   leave Loading for Ready or Error, and a panel that has left Loading never
   shows Loading again. *)
C21_StartupAlwaysCompletes ==
    /\ <>(LibraryStatus \in {"Ready", "Error"})
    /\ <>(InstrumentsStatus \in {"Ready", "Error"})
    /\ [][LibraryStatus # "Loading" => LibraryStatus' # "Loading"]_vars
    /\ [][InstrumentsStatus # "Loading" => InstrumentsStatus' # "Loading"]_vars

(* The part of C21 the library panel alone has to meet. *)
LibraryPanelAlwaysCompletes ==
    /\ <>(LibraryStatus \in {"Ready", "Error"})
    /\ [][LibraryStatus # "Loading" => LibraryStatus' # "Loading"]_vars
    /\ [][InstrumentsStatus # "Loading" => InstrumentsStatus' # "Loading"]_vars

(* ... and the instruments panel when an instruments path is configured or
   the client cannot be constructed. *)
InstrumentsPanelCompletesWithPath ==
    (instruments_path # None \/ ClientError(access_token) # None)
        => <>(InstrumentsStatus \in {"Ready", "Error"})

-----------------------------------------------------------------------------
(* Startup writes nothing before the gather has completed. *)

FetchInFlight == library_fetch = Pending \/ instruments_fetch = Pending

(* The steps of startup up to the completion of the gather. *)
StartupBeforeJoin ==
    \/ StartupBegin /\ startup_pc' = "gathering"
    \/ LibraryFetchReturns
    \/ InstrumentsFetchReturns

(* C22: startup makes no partial writes.  No step of startup taken before
   both fetches have completed writes an entry list, the selected set, the
   tally map, the history, a cursor or an option list (the panel status);
   the step of startup that does write is taken only when no fetch is in
   flight; and whenever a fetch is in flight the entry lists, the selected
   set, the tally map and the history are empty and both panels show
   Loading, as in the initial state (a cursor is then moved by a highlight
   notification only, never by startup). *)
C22_StartupMakesNoPartialWrites ==
    /\ [][StartupBeforeJoin => UNCHANGED <<sessionVars, widgetVars>>]_vars
    /\ [][StartupJoin => ~FetchInFlight]_vars
    /\ [](FetchInFlight =>
            /\ library_entries = <<>>
            /\ instrument_entries = <<>>
            /\ selected_entries = {}
            /\ instrument_counts = Composed.instrument_counts
            /\ action_history = <<>>
            /\ library_list = Composed.library_list
            /\ instrument_list = Composed.instrument_list
            /\ LibraryStatus = "Loading"
            /\ InstrumentsStatus = "Loading")

C22_Witness ==
    /\ startup_pc = "gathering"
    /\ library_fetch = Returned(<<"A.pdf", "b.pdf">>)
    /\ instruments_fetch = Pending
    /\ library_entries = <<>>
    /\ LibraryStatus = "Loading"

-----------------------------------------------------------------------------
(* Calls of the Content Source. *)

(* C23: the Content Source is invoked at most once per panel per session:
   list_contents is called at most once for the library and at most once
   for the instruments; once a panel shows Ready or Error no further call
   is made for it; and while a fetch is in flight startup is not entered
   again, so no call is added. *)
C23_ContentSourceInvokedAtMostOnce ==
    /\ [](fetch_calls.library <= 1 /\ fetch_calls.instruments <= 1)
    /\ [][(LibraryStatus \in {"Ready", "Error"})
            => fetch_calls'.library = fetch_calls.library]_vars
    /\ [][(InstrumentsStatus \in {"Ready", "Error"})
            => fetch_calls'.instruments = fetch_calls.instruments]_vars
    /\ [][FetchInFlight \/ startup_pc = "gathering"
            => fetch_calls' = fetch_calls /\ startup_pc' # "mounting"]_vars

C23_Witness ==
    /\ startup_pc = "done"
    /\ fetch_calls = [library |-> 1, instruments |-> 1]
    /\ LibraryStatus = "Ready"
    /\ InstrumentsStatus = "Error"
    /\ last_op = "toggle_selection"

-----------------------------------------------------------------------------
(* Startup without a Content Source. *)

(* str(exc) of the exception DropboxClient.__init__ raises for the token. *)
ConstructionFailure ==
    IF access_token = "missing"
    THEN "Cannot connect! The DBX access token is missing in the configurations."
    ELSE "('Cannot connect!', AuthError('invalid_access_token', None))"

(* C24: when the Content Source cannot be constructed at startup (the token
   is missing or authentication fails), no fetch is attempted, startup ends
   in the step in which the construction fails, and from then on the library
   panel and the instruments panel each show Error with the message of that
   failure, and the selected set, the tally map and the history are empty. *)
C24_ConstructionFailureGivesTwoErrorPanels ==
    /\ [](access_token # "ok" =>
            /\ fetch_calls = [library |-> 0, instruments |-> 0]
            /\ library_fetch = NotStarted /\ instruments_fetch = NotStarted
            /\ startup_pc \in {"mounting", "done"})
    /\ []((access_token # "ok" /\ startup_pc = "done") =>
            /\ LibraryStatus = "Error"
            /\ InstrumentsStatus = "Error"
            /\ library_list
                 = <<Option("Unable to load Dropbox contents:\n" \o ConstructionFailure,
                            None, TRUE)>>
            /\ instrument_list
                 = <<Option("Unable to load instruments:\n" \o ConstructionFailure,
                            None, TRUE)>>
            /\ library_entries = <<>> /\ instrument_entries = <<>>
            /\ selected_entries = {}
            /\ \A e \in DOMAIN instrument_counts : instrument_counts[e] = 0
            /\ action_history = <<>>)
    /\ [][(access_token # "ok" /\ startup_pc = "mounting" /\ startup_pc' # "mounting")
            => startup_pc' = "done" /\ last_op' = "startup"]_vars

C24_Witness ==
    /\ access_token = "invalid"
    /\ startup_pc = "done"
    /\ LibraryStatus = "Error"
    /\ InstrumentsStatus = "Error"
    /\ fetch_calls = [library |-> 0, instruments |-> 0]

-----------------------------------------------------------------------------
(* Identities in the entry lists. *)

NoDuplicates(entries) ==
    \A i, j \in 1..Len(entries) : entries[i] = entries[j] => i = j

(* C25: duplicate identities collapse: once a panel is loaded its entry list
   holds each identity at most once, also when two distinct raw names become
   equal after the suffix or the type indicator is stripped. *)
C25_EntryListsHoldEachIdentityOnce ==
    /\ LibraryStatus = "Ready" => NoDuplicates(library_entries)
    /\ InstrumentsStatus = "Ready" => NoDuplicates(instrument_entries)

(* What does hold: the keys of the tally map are the identities of the
   instruments list, each once, and the selected set holds an identity once
   however often the library list shows it. *)
TalliesCollapseDuplicates ==
    InstrumentsStatus = "Ready" => DOMAIN instrument_counts = SeqRange(instrument_entries)

-----------------------------------------------------------------------------
(* The history as a log of the tally map. *)

(* The sum of the deltas the history records for an instrument. *)
RECURSIVE RecordedDeltasOf(_, _, _)
RecordedDeltasOf(history, entry, n) ==
    IF n = 0 THEN 0
    ELSE RecordedDeltasOf(history, entry, n - 1)
            + (IF history[n].type = "InstrumentAction" /\ history[n].entry = entry
               THEN history[n].delta ELSE 0)

RecordedDeltas(history, entry) == RecordedDeltasOf(history, entry, Len(history))

(* C26: the history is a faithful log of the tally map: in every reachable
   state the tally of every instrument identity equals the sum of the deltas
   of the records the history now holds for it, and so an undo that reverses
   such a record subtracts its whole delta, never stopped by the clamp at 0. *)
C26_HistoryIsAFaithfulLogOfTallies ==
    /\ [](\A e \in SeqRange(instrument_entries) \cup DOMAIN instrument_counts :
            CountOf(instrument_counts, e) = RecordedDeltas(action_history, e))
    /\ [][(UndoPressed /\ action_history # <<>>
                /\ Last(action_history).type = "InstrumentAction")
            => /\ CountOf(instrument_counts, Last(action_history).entry)
                    - Last(action_history).delta >= 0
               /\ CountOf(instrument_counts', Last(action_history).entry)
                    = CountOf(instrument_counts, Last(action_history).entry)
                        - Last(action_history).delta]_vars

C26_Witness ==
    /\ last_op = "undo InstrumentAction"
    /\ Len(action_history) = 1
    /\ action_history[1].type = "InstrumentAction"
    /\ action_history[1].delta = 2
    /\ CountOf(instrument_counts, action_history[1].entry) = 2

-----------------------------------------------------------------------------
(* The selected set and the library list. *)

(* C27: in every reachable state the selected set is a subset of the
   identities of the current library entry list: no sequence of select
   events, undo, clear_all, panel loads and panel load errors leaves an
   identity selected that the library panel does not list. *)
C27_SelectedAreListed ==
    selected_entries \subseteq SeqRange(library_entries)

C27_Witness ==
    /\ last_op = "undo SelectionAction"
    /\ library_entries = <<"A", "b">>
    /\ selected_entries = {"b"}
    /\ Len(action_history) = 1
    /\ InstrumentsStatus = "Error"

====
